---- MODULE Spec2Model ----
(***************************************************************************)
(* RankFM (src/rankfm/rankfm.py): the model object, its fit / fit_partial  *)
(* life cycle and its query methods.                                       *)
(*                                                                         *)
(* The object's attributes are the fields of the record `self`.  Every    *)
(* public method is one action: it runs the whole method, the private     *)
(* methods it calls included, and leaves in `ret` what the caller gets    *)
(* back (a value or the exception raised).  The caller then takes the     *)
(* result (Return) before it makes the next call: calls never overlap.    *)
(*                                                                         *)
(* Arrays of floats are kept by shape and by an abstract content tag      *)
(* (how they were initialised and how many training epochs were applied); *)
(* scores are symbolic values.                                            *)
(***************************************************************************)
EXTENDS Integers, Sequences, FiniteSets, TLC

\* ---------------------------------------------------------------- bounds

\* longest interaction table handed to fit / fit_partial
MaxInter == 2
\* largest number of epochs of one call
MaxEpochs == 1
\* cap on the epochs applied to one weight store (keeps the counter finite)
MaxUpd == 2
\* largest number of feature columns of a feature table
MaxCols == 2
\* longest list of pairs / users handed to a query
MaxQuery == 2
\* largest n_items / n_users asked of a query
MaxN == 2

\* raw identifiers that occur in training data
UserIds == {1, 2, 3}
ItemIds == {1, 2}
\* the users of the smaller interaction tables
CoreUserIds == {1, 2}
\* outcomes of the random source that are told apart
Draws == {1, 2}
\* identifiers that never occur in training data
ColdIds == {9}

\* ------------------------------------------------------------- constants

\* __init__(factors=10): the latent factor rank
factors == 10

\* ----------------------------------------------------------------- values

\* Python's None
None == [kind |-> "none"]
\* the missing-value marker (float nan) in an index column or a table cell;
\* index positions are >= 0 and identifiers are >= 1
NaN == -1
\* the not-a-number score
NaNScore == [kind |-> "nan"]

Range(f) == {f[k] : k \in DOMAIN f}

Min(a, b) == IF a <= b THEN a ELSE b

\* all sequences over S of length lo..hi
SeqsOf(S, lo, hi) == UNION {[1..n -> S] : n \in lo..hi}

\* np.zeros(shape)
Zeros(shape) == [kind |-> "arr", shape |-> shape, init |-> "zeros", draw |-> 0, upd |-> 0]

\* np.random.normal(size=shape): draw names the outcome of the random source
Normal(shape, draw) == [kind |-> "arr", shape |-> shape, init |-> "normal", draw |-> draw, upd |-> 0]

\* a feature matrix built from a feature table
Data(shape) == [kind |-> "arr", shape |-> shape, init |-> "data", draw |-> 0, upd |-> 0]

\* sorted(...) / np.sort / sort_values on a sequence of integers
RECURSIVE Insert(_, _)
Insert(x, s) ==
    IF s = <<>> THEN <<x>>
    ELSE IF x <= Head(s) THEN <<x>> \o s
    ELSE <<Head(s)>> \o Insert(x, Tail(s))

RECURSIVE Sorted(_)
Sorted(s) == IF s = <<>> THEN <<>> ELSE Insert(Head(s), Sorted(Tail(s)))

\* np.sort(np.unique(column))
RECURSIVE SortedSet(_)
SortedSet(S) ==
    IF S = {} THEN <<>>
    ELSE LET m == CHOOSE x \in S : \A y \in S : x <= y
         IN <<m>> \o SortedSet(S \ {m})

\* pd.Series(values): positions 0..n-1
Series(s) == [k \in 0..(Len(s) - 1) |-> s[k + 1]]

\* pd.Series(data=series.index, index=series.values)
Reverse(series) == [v \in Range(series) |-> CHOOSE k \in DOMAIN series : series[k] = v]

\* np.arange(n)
Arange(n) == [k \in 1..n |-> k - 1]

\* column.map(mapping): an identifier the mapping lacks becomes NaN
MapId(mapping, id) == IF id \in DOMAIN mapping THEN mapping[id] ELSE NaN

\* ------------------------------------------------------------------ state

VARIABLES self, ret, call, fit_in

vars == <<self, ret, call, fit_in>>

\* no call has returned a result the caller still holds
NoCall == [kind |-> "nocall"]

ReturnedSelf == [kind |-> "self"]

ReturnedNone == [kind |-> "None"]

Raised(exc) == [kind |-> "raise", exc |-> exc]

\* RankFM._reset_state
_reset_state ==
    [ index_to_user |-> None, index_to_item |-> None,
      user_to_index |-> None, item_to_index |-> None,
      user_idx |-> None, item_idx |-> None,
      interactions |-> None, user_items_py |-> None,
      x_uf |-> None, x_if |-> None,
      w_i |-> None, w_if |-> None,
      v_u |-> None, v_i |-> None, v_uf |-> None, v_if |-> None,
      is_fit |-> FALSE ]

\* the Weight Store
WeightStore(s) == <<s.w_i, s.w_if, s.v_u, s.v_i, s.v_uf, s.v_if>>

\* the weights a call hands to the training loop
Handed(s) == [kind |-> "weights", weights |-> WeightStore(s)]

\* the identifier <-> index mappings
Mappings(s) == <<s.user_to_index, s.item_to_index, s.index_to_user, s.index_to_item, s.user_idx, s.item_idx>>

\* an outcome of a private method: the object as it leaves it, and the
\* exception it raised ("none" when it returned)
Ok(s) == [self |-> s, exc |-> "none"]

Fail(s, exc) == [self |-> s, exc |-> exc]

\* sort_values(['user_idx','item_idx']).groupby('user_idx')['item_idx'].apply(np.array).to_dict()
GroupItems(rows) ==
    [u \in {rows[k][1] : k \in DOMAIN rows} |->
        LET RECURSIVE Pick(_)
            Pick(k) == IF k > Len(rows) THEN <<>>
                       ELSE IF rows[k][1] = u THEN <<rows[k][2]>> \o Pick(k + 1)
                       ELSE Pick(k + 1)
        IN Sorted(Pick(1))]

\* RankFM._init_interactions
_init_interactions(s, interactions) ==
    LET n == Len(interactions)
        ucol == [k \in 1..n |-> MapId(s.user_to_index, interactions[k][1])]
        icol == [k \in 1..n |-> MapId(s.item_to_index, interactions[k][2])]
        raw == [kind |-> "DataFrame", rows |-> interactions]
        half == [kind |-> "DataFrame", rows |-> [k \in 1..n |-> <<ucol[k], interactions[k][2]>>]]
        mapped == [k \in 1..n |-> <<ucol[k], icol[k]>>]
        kept == SelectSeq(mapped, LAMBDA r : r[1] # NaN /\ r[2] # NaN)
    IN  \* .astype(np.int32) of a column holding NaN raises
        IF \E k \in 1..n : ucol[k] = NaN
        THEN Fail([s EXCEPT !.interactions = raw], "ValueError")
        ELSE IF \E k \in 1..n : icol[k] = NaN
        THEN Fail([s EXCEPT !.interactions = half], "ValueError")
        ELSE Ok([s EXCEPT !.interactions = [kind |-> "ndarray", rows |-> kept],
                          !.user_items_py = GroupItems(kept)])

\* one side of RankFM._init_features: does the table's identifier column,
\* mapped to index positions and sorted, equal the index array?
FeaturesMatch(mapping, idx, features) ==
    LET col == [k \in DOMAIN features.ids |-> MapId(mapping, features.ids[k])]
    IN  /\ \A k \in DOMAIN col : col[k] # NaN
        /\ Sorted(col) = idx

\* RankFM._init_features
_init_features(s, user_features, item_features) ==
    LET U == Len(s.user_idx)
        I == Len(s.item_idx)
        uok == user_features = None \/ FeaturesMatch(s.user_to_index, s.user_idx, user_features)
        iok == item_features = None \/ FeaturesMatch(s.item_to_index, s.item_idx, item_features)
        xu == IF user_features = None THEN Zeros(<<U, 1>>) ELSE Data(<<U, user_features.cols>>)
        xi == IF item_features = None THEN Zeros(<<I, 1>>) ELSE Data(<<I, item_features.cols>>)
    IN  IF ~uok THEN Fail(s, "KeyError")
        ELSE IF ~iok THEN Fail([s EXCEPT !.x_uf = xu], "KeyError")
        ELSE Ok([s EXCEPT !.x_uf = xu, !.x_if = xi])

\* RankFM._init_weights
_init_weights(s, user_features, item_features, draw) ==
    LET U == Len(s.user_idx)
        I == Len(s.item_idx)
        P == s.x_uf.shape[2]
        Q == s.x_if.shape[2]
    IN  [s EXCEPT !.w_i = Zeros(<<I>>),
                  !.w_if = Zeros(<<Q>>),
                  !.v_u = Normal(<<U, factors>>, draw),
                  !.v_i = Normal(<<I, factors>>, draw),
                  !.v_uf = IF user_features = None THEN Zeros(<<P, factors>>)
                           ELSE Normal(<<P, factors>>, draw),
                  !.v_if = IF item_features = None THEN Zeros(<<Q, factors>>)
                           ELSE Normal(<<Q, factors>>, draw)]

\* RankFM._init_all
_init_all(s, interactions, user_features, item_features, draw) ==
    LET users == SortedSet({interactions[k][1] : k \in DOMAIN interactions})
        items == SortedSet({interactions[k][2] : k \in DOMAIN interactions})
        s1 == [s EXCEPT !.index_to_user = Series(users),
                        !.index_to_item = Series(items),
                        !.user_to_index = Reverse(Series(users)),
                        !.item_to_index = Reverse(Series(items)),
                        !.user_idx = Arange(Len(users)),
                        !.item_idx = Arange(Len(items))]
        o2 == _init_interactions(s1, interactions)
        o3 == _init_features(o2.self, user_features, item_features)
    IN  IF o2.exc # "none" THEN o2
        ELSE IF o3.exc # "none" THEN o3
        ELSE Ok(_init_weights(o3.self, user_features, item_features, draw))

\* does some user of the interaction table have every item in its observed
\* set?  The negative sampler redraws until it finds an unobserved item, so
\* an epoch over such a table never ends.
Degenerate(s) ==
    \E k \in DOMAIN s.interactions.rows :
        Range(s.item_idx) \subseteq Range(s.user_items_py[s.interactions.rows[k][1]])

\* do the feature matrices and the weights handed to the trainer fit together?
ShapesConsistent(s) ==
    LET U == Len(s.user_idx)
        I == Len(s.item_idx)
    IN  /\ s.w_i.shape = <<I>>
        /\ s.v_u.shape = <<U, factors>>
        /\ s.v_i.shape = <<I, factors>>
        /\ s.x_uf.shape = <<U, s.v_uf.shape[1]>>
        /\ s.x_if.shape = <<I, s.v_if.shape[1]>>
        /\ s.w_if.shape = <<s.x_if.shape[2]>>
        /\ s.v_uf.shape[2] = factors
        /\ s.v_if.shape[2] = factors

\* one weight array after `epochs` more epochs of gradient steps
Trained(w, epochs) == [w EXCEPT !.upd = @ + epochs]

\* numba_methods._fit: the training loop.  It runs `epochs` epochs over the
\* interactions and returns the six updated weight arrays.  `crash` is the
\* outcome of an epoch over arrays whose shapes do not fit together.
_fit(s, epochs, crash) ==
    IF epochs >= 1 /\ Degenerate(s) THEN [kind |-> "hang"]
    ELSE IF epochs >= 1 /\ ~ShapesConsistent(s) /\ crash THEN [kind |-> "raise"]
    ELSE [kind |-> "weights",
          w_i |-> Trained(s.w_i, epochs), w_if |-> Trained(s.w_if, epochs),
          v_u |-> Trained(s.v_u, epochs), v_i |-> Trained(s.v_i, epochs),
          v_uf |-> Trained(s.v_uf, epochs), v_if |-> Trained(s.v_if, epochs)]

\* a fit_partial that builds the indexes and the weights on every call
AlwaysInitAll(s) == TRUE

\* line 248: fit_partial builds the indexes and the weights only on a model
\* that is not fit
NeedsInitAll(s) == ~s.is_fit

\* RankFM.fit_partial, lines 248-252: the indexes, the interactions and the
\* feature matrices, and on a model that is not fit the weights
Prepare(s, interactions, user_features, item_features, draw) ==
    LET o1 == _init_interactions(s, interactions)
    IN  IF NeedsInitAll(s)
        THEN _init_all(s, interactions, user_features, item_features, draw)
        ELSE IF o1.exc # "none" THEN o1
        ELSE _init_features(o1.self, user_features, item_features)

\* RankFM.fit_partial: the object it leaves, what the caller gets, and the
\* weights it handed to the training loop
fit_partial(s, interactions, user_features, item_features, epochs, draw, crash) ==
    LET o == Prepare(s, interactions, user_features, item_features, draw)
        r == _fit(o.self, epochs, crash)
    IN  IF o.exc # "none"
        THEN [self |-> o.self, ret |-> Raised(o.exc), fit_in |-> None]
        ELSE IF r.kind = "hang"
        THEN [self |-> o.self, ret |-> [kind |-> "hang"], fit_in |-> Handed(o.self)]
        ELSE IF r.kind = "raise"
        THEN [self |-> o.self, ret |-> Raised("ValueError"), fit_in |-> Handed(o.self)]
        ELSE [self |-> [o.self EXCEPT !.w_i = r.w_i, !.w_if = r.w_if,
                                      !.v_u = r.v_u, !.v_i = r.v_i,
                                      !.v_uf = r.v_uf, !.v_if = r.v_if,
                                      !.is_fit = TRUE],
              ret |-> ReturnedSelf,
              fit_in |-> Handed(o.self)]

\* RankFM.fit: it ends without a return statement
fit(s, interactions, user_features, item_features, epochs, draw, crash) ==
    LET r == fit_partial(_reset_state, interactions, user_features, item_features, epochs, draw, crash)
    IN  [r EXCEPT !.ret = IF @ = ReturnedSelf THEN ReturnedNone ELSE @]

\* ---------------------------------------------------------------- queries

\* the utility of a known (user index, item index) pair: a value fixed by the
\* pair, the weights and the feature matrices
Score(s, u, i) == [kind |-> "score", u |-> u, i |-> i, w |-> WeightStore(s), x |-> <<s.x_uf, s.x_if>>]

\* numba_methods._predict: one score per pair, not-a-number for a pair whose
\* user or item index is missing
_predict(s, pred_pairs) ==
    [k \in DOMAIN pred_pairs |->
        IF pred_pairs[k][1] = NaN \/ pred_pairs[k][2] = NaN THEN NaNScore
        ELSE Score(s, pred_pairs[k][1], pred_pairs[k][2])]

\* a filter that keeps every score
DropScoresKeepAll(scores) == scores

\* scores[~np.isnan(scores)]
DropNaNScores(scores) == SelectSeq(scores, LAMBDA x : x # NaNScore)

\* RankFM.predict
predict(s, pairs, cold_start) ==
    LET pred_pairs == [k \in DOMAIN pairs |->
                          <<MapId(s.user_to_index, pairs[k][1]), MapId(s.item_to_index, pairs[k][2])>>]
        scores == _predict(s, pred_pairs)
    IN  IF ~s.is_fit THEN Raised("AssertionError")
        ELSE IF cold_start = "nan" THEN [kind |-> "ndarray", vals |-> scores]
        ELSE IF cold_start = "drop" THEN [kind |-> "ndarray", vals |-> DropNaNScores(scores)]
        ELSE Raised("ValueError")

\* the first n entries of a sequence
Take(seq, n) == SubSeq(seq, 1, Min(n, Len(seq)))

\* a row of n cells: the entries of seq, then missing markers
PadRow(seq, n) == [k \in 1..n |-> IF k <= Len(seq) THEN seq[k] ELSE NaN]

\* every ordering of the elements of a finite set
Orderings(S) == {q \in [1..Cardinality(S) -> S] : \A a, b \in 1..Cardinality(S) : q[a] = q[b] => a = b}

\* numba_methods._recommend_for_users: one row of n_items cells per queried
\* user.  A missing user index gives a row of missing markers; a user index
\* gives the candidate items (all items, less the user's observed set when
\* filter_previous) by descending score, the first n_items of them, and
\* missing markers where the candidates run out.  ranking[u] is the order
\* of all items by descending score for user u.
_recommend_for_users(s, user_idx, n_items, filter_previous, ranking) ==
    [k \in DOMAIN user_idx |->
        IF user_idx[k] = NaN THEN [c \in 1..n_items |-> NaN]
        ELSE LET u == user_idx[k]
                 seen == IF filter_previous /\ u \in DOMAIN s.user_items_py
                         THEN Range(s.user_items_py[u]) ELSE {}
                 selected == SelectSeq(ranking[u], LAMBDA i : i \notin seen)
             IN PadRow(Take(selected, n_items), n_items)]

\* rec_items.dropna(how='any')
DropRowsWithNaN(users, rows) ==
    LET keep == {k \in DOMAIN rows : \A c \in DOMAIN rows[k] : rows[k][c] # NaN}
        RECURSIVE Pick(_)
        Pick(k) == IF k > Len(rows) THEN <<>>
                   ELSE IF k \in keep THEN <<k>> \o Pick(k + 1)
                   ELSE Pick(k + 1)
        ks == Pick(1)
    IN  [kind |-> "DataFrame",
         index |-> [j \in DOMAIN ks |-> users[ks[j]]],
         rows |-> [j \in DOMAIN ks |-> rows[ks[j]]]]

\* RankFM.recommend_for_users
recommend_for_users(s, users, n_items, filter_previous, cold_start, ranking) ==
    LET user_idx == [k \in DOMAIN users |-> MapId(s.user_to_index, users[k])]
        rec_items == _recommend_for_users(s, user_idx, n_items, filter_previous, ranking)
        named == [k \in DOMAIN rec_items |->
                     [c \in DOMAIN rec_items[k] |-> MapId(s.index_to_item, rec_items[k][c])]]
    IN  IF ~s.is_fit THEN Raised("AssertionError")
        ELSE IF cold_start = "nan" THEN [kind |-> "DataFrame", index |-> users, rows |-> named]
        ELSE IF cold_start = "drop" THEN DropRowsWithNaN(users, named)
        ELSE Raised("ValueError")

\* the body shared by similar_items and similar_users: the search index idx,
\* the factor matrix v and the feature factors vf the method reads, the
\* feature matrix x, and the mapping back to identifiers.  order is the
\* order of the rows by descending similarity.
Similar(idx, v, vf, x, index_to, n, order, by) ==
    LET a == v.shape[1]
        b == x.shape[1]
        R == IF a = b THEN a ELSE IF a = 1 THEN b ELSE a
        labels == SelectSeq(order, LAMBDA k : k < R /\ k # idx)
        top == Take(labels, n)
    IN  \* v[idx]
        IF idx >= a THEN Raised("IndexError")
        \* np.dot(vf.T, x[idx]) and np.dot(x, vf)
        ELSE IF vf.shape[1] # x.shape[2] THEN Raised("ValueError")
        \* v + np.dot(x, vf)
        ELSE IF a # b /\ a # 1 /\ b # 1 THEN Raised("ValueError")
        ELSE [kind |-> "Series", vals |-> [k \in DOMAIN top |-> MapId(index_to, top[k])], by |-> by]

\* RankFM.similar_items
similar_items(s, item_id, n_items, order) ==
    IF ~s.is_fit THEN Raised("AssertionError")
    ELSE IF item_id \notin DOMAIN s.item_to_index THEN Raised("UnboundLocalError")
    ELSE Similar(s.item_to_index[item_id], s.v_i, s.v_if, s.x_if, s.index_to_item, n_items, order, <<"v_i", "v_if", "x_if">>)

\* RankFM.similar_users
similar_users(s, user_id, n_users, order) ==
    IF ~s.is_fit THEN Raised("AssertionError")
    ELSE IF user_id \notin DOMAIN s.user_to_index THEN Raised("UnboundLocalError")
    ELSE Similar(s.user_to_index[user_id], s.v_i, s.v_uf, s.x_uf, s.index_to_user, n_users, order, <<"v_i", "v_uf", "x_uf">>)

\* ----------------------------------------------------------------- inputs

Pairs == UserIds \X ItemIds

\* interaction tables over the given pairs: rows of (user_id, item_id) in
\* ascending order
SortedTables(P) ==
    {t \in SeqsOf(P, 1, MaxInter) :
        \A k \in 1..(Len(t) - 1) :
            t[k][1] < t[k + 1][1] \/ (t[k][1] = t[k + 1][1] /\ t[k][2] <= t[k + 1][2])}

InteractionTables == SortedTables(Pairs)

\* the interaction tables over the core users
CoreTables == SortedTables(CoreUserIds \X ItemIds)

\* the core tables in which no user and no item comes twice
SparseTables ==
    {t \in CoreTables :
        \A j, k \in DOMAIN t : j # k => t[j][1] # t[k][1] /\ t[j][2] # t[k][2]}

\* the identifiers a query may name: trained ones and cold ones
QueryUserIds == CoreUserIds \cup ColdIds

QueryItemIds == ItemIds \cup ColdIds

ColdStarts == {"nan", "drop", "other"}

\* the feature table arguments a call may come with: none, a table that
\* lists exactly the identifiers of the interaction table it comes with
\* (with any number of feature columns), or a table that lists every
\* identifier
NoTable == [kind |-> "none"]

CoverTables == {[kind |-> "cover", cols |-> c] : c \in 1..MaxCols}

FullTable == [kind |-> "full", cols |-> 1]

\* the feature table: its identifier column and its number of feature columns
FeatureTable(choice, column, AllIds) ==
    IF choice.kind = "none" THEN None
    ELSE IF choice.kind = "cover" THEN [ids |-> SortedSet(Range(column)), cols |-> choice.cols]
    ELSE [ids |-> SortedSet(AllIds), cols |-> choice.cols]

UserColumn(interactions) == [k \in DOMAIN interactions |-> interactions[k][1]]

ItemColumn(interactions) == [k \in DOMAIN interactions |-> interactions[k][2]]

\* the epochs applied to the weight store
Upd(s) == IF s.w_i = None THEN 0 ELSE s.w_i.upd

\* ---------------------------------------------------------------- actions

Init ==
    /\ self = _reset_state
    /\ ret = NoCall
    /\ call = NoCall
    /\ fit_in = None

\* the caller's call of a training method whose outcome is `out`; a call
\* that never returns leaves the caller nothing to go on with
TrainingCall(op, args, out) ==
    /\ ret = NoCall
    /\ out.ret.kind # "hang"
    /\ Upd(out.self) <= MaxUpd
    /\ self' = out.self
    /\ ret' = out.ret
    /\ fit_in' = out.fit_in
    /\ call' = [kind |-> op, was_fit |-> self.is_fit, args |-> args]

\* the arguments of a call of fit or fit_partial
TrainingArgs(interactions, user_features, item_features, epochs) ==
    [interactions |-> interactions, user_features |-> user_features,
     item_features |-> item_features, epochs |-> epochs]

\* the outcomes of an epoch over the arrays the call hands to the trainer:
\* it may fail only where their shapes do not fit together
MayCrash(s, interactions, user_features, item_features, epochs, draw) ==
    LET o == Prepare(s, interactions, user_features, item_features, draw)
    IN  o.exc = "none" /\ epochs >= 1 /\ ~ShapesConsistent(o.self)

\* a call of fit with its arguments drawn from the given menus
FitOn(Tables, UserFeatures, ItemFeatures) ==
    /\ ret = NoCall
    /\ \E interactions \in Tables, epochs \in 0..MaxEpochs, draw \in Draws :
       \E uf \in UserFeatures, itf \in ItemFeatures :
           LET user_features == FeatureTable(uf, UserColumn(interactions), UserIds)
               item_features == FeatureTable(itf, ItemColumn(interactions), ItemIds)
           IN  TrainingCall("fit", TrainingArgs(interactions, user_features, item_features, epochs),
                            fit(self, interactions, user_features, item_features, epochs, draw, FALSE))

\* a call of fit_partial with its arguments drawn from the given menus; a
\* call on a fitted model draws nothing from the random source
FitPartialOn(Tables, UserFeatures, ItemFeatures) ==
    /\ ret = NoCall
    /\ \E interactions \in Tables, epochs \in 0..MaxEpochs :
       \E draw \in IF self.is_fit THEN {1} ELSE Draws :
       \E uf \in UserFeatures, itf \in ItemFeatures :
       \E crash \in BOOLEAN :
           LET user_features == FeatureTable(uf, UserColumn(interactions), UserIds)
               item_features == FeatureTable(itf, ItemColumn(interactions), ItemIds)
           IN  /\ crash => self.is_fit /\ MayCrash(self, interactions, user_features, item_features, epochs, draw)
               /\ TrainingCall("fit_partial", TrainingArgs(interactions, user_features, item_features, epochs),
                               fit_partial(self, interactions, user_features, item_features, epochs, draw, crash))

NoFeatures == {NoTable}

UserFeatureMenu == {NoTable, FullTable} \cup CoverTables

ItemFeatureMenu == {NoTable, [kind |-> "cover", cols |-> MaxCols]}

Fit == FitOn(InteractionTables, NoFeatures, NoFeatures)

FitPartial == FitPartialOn(InteractionTables, NoFeatures, NoFeatures)

FitFeatures == FitOn(SparseTables, UserFeatureMenu, ItemFeatureMenu)

FitPartialFeatures == FitPartialOn(SparseTables, UserFeatureMenu, ItemFeatureMenu)

FitCore == FitOn(CoreTables, NoFeatures, NoFeatures)

FitPartialCore == FitPartialOn(CoreTables, NoFeatures, NoFeatures)

\* the caller's call of a query method: the object is left as it is
QueryCall(op, args, result) ==
    /\ ret = NoCall
    /\ ret' = result
    /\ call' = [kind |-> op, was_fit |-> self.is_fit, args |-> args]
    /\ UNCHANGED <<self, fit_in>>

Predict ==
    /\ ret = NoCall
    /\ \E pairs \in SeqsOf(QueryUserIds \X QueryItemIds, 1, MaxQuery), cold_start \in ColdStarts :
        QueryCall("predict", <<pairs, cold_start>>, predict(self, pairs, cold_start))

\* have the indexes been built?  _init_all builds them and stores the
\* interaction table in one go
HasIndex(s) == s.interactions # None

\* the size of the larger index
Rows(s) == IF ~HasIndex(s) THEN 0
           ELSE IF Len(s.user_idx) >= Len(s.item_idx) THEN Len(s.user_idx) ELSE Len(s.item_idx)

\* the rankings of the items a scorer may produce, one per user index
Rankings(s) ==
    IF ~HasIndex(s) THEN {<<>>}
    ELSE [0..(Len(s.user_idx) - 1) -> Orderings(Range(s.item_idx))]

RecommendForUsers ==
    /\ ret = NoCall
    /\ \E users \in SeqsOf(QueryUserIds, 1, MaxQuery), n_items \in 1..MaxN,
       filter_previous \in BOOLEAN, cold_start \in ColdStarts, ranking \in Rankings(self) :
        QueryCall("recommend_for_users", <<users, n_items, filter_previous, cold_start>>,
                  recommend_for_users(self, users, n_items, filter_previous, cold_start, ranking))

SimilarItems ==
    /\ ret = NoCall
    /\ \E item_id \in QueryItemIds, n_items \in 1..MaxN, order \in Orderings(0..(Rows(self) - 1)) :
        QueryCall("similar_items", <<item_id, n_items>>, similar_items(self, item_id, n_items, order))

SimilarUsers ==
    /\ ret = NoCall
    /\ \E user_id \in QueryUserIds, n_users \in 1..MaxN, order \in Orderings(0..(Rows(self) - 1)) :
        QueryCall("similar_users", <<user_id, n_users>>, similar_users(self, user_id, n_users, order))

\* the caller takes the result of the call and goes on
Return ==
    /\ ret # NoCall
    /\ ret' = NoCall
    /\ call' = NoCall
    /\ fit_in' = None
    /\ UNCHANGED self

Next == Fit \/ FitPartial \/ Return

\* the life cycle: fit and fit_partial on interaction tables alone
Spec == Init /\ [][Next]_vars

NextFeatures == FitFeatures \/ FitPartialFeatures \/ Return

\* the life cycle with user and item feature tables
SpecFeatures == Init /\ [][NextFeatures]_vars

NextCore == FitCore \/ FitPartialCore \/ Return

\* the life cycle on the core tables
SpecCore == Init /\ [][NextCore]_vars

NextQuery == FitCore \/ FitPartialCore \/ RecommendForUsers \/ SimilarItems \/ SimilarUsers \/ Return

\* the fitted model and its recommendation and similarity queries
SpecQuery == Init /\ [][NextQuery]_vars

NextPredict == FitCore \/ Predict \/ Return

\* the freshly fitted model and predict
SpecPredict == Init /\ [][NextPredict]_vars

\* ------------------------------------------------------------ properties

\* C1: a call of fit or fit_partial that fails because a feature table does
\* not cover the known users or items (KeyError) leaves the Weight Store as
\* it was before the call.
C1_FailedCallKeepsWeightStore ==
    [][(call'.kind \in {"fit", "fit_partial"} /\ ret' = Raised("KeyError"))
          => WeightStore(self') = WeightStore(self)]_vars

\* C2: fit_partial on a model that is fit does not reinitialize: the weights
\* it hands to the training loop are the weights the previous call left, and
\* the identifier <-> index mappings are unchanged by the call.
C2_PartialFitResumes ==
    [][(self.is_fit /\ call'.kind = "fit_partial")
          => /\ Mappings(self') = Mappings(self)
             /\ fit_in' # None => fit_in'.weights = WeightStore(self)]_vars

\* a fit_partial on a fit model has trained for an epoch and returned
C2_Witness ==
    /\ call.kind = "fit_partial"
    /\ call.was_fit
    /\ call.args.epochs >= 1
    /\ ret = ReturnedSelf
    /\ fit_in # None
    /\ Upd(self) = fit_in.weights[1].upd + call.args.epochs

\* C3: is_fit is true only if at least one training epoch has completed since
\* the model was constructed or last reset.
C3_FitOnlyAfterAnEpoch == self.is_fit => Upd(self) >= 1

\* C6: a call of fit that succeeds returns the model object itself.
C6_FitReturnsSelf == (call.kind = "fit" /\ ret.kind # "raise") => ret = ReturnedSelf

\* a call of fit or fit_partial has just returned normally
TrainingReturned == call.kind \in {"fit", "fit_partial"} /\ ret.kind \in {"self", "None"}

\* the sequence without its not-a-number entries
RECURSIVE WithoutNaN(_)
WithoutNaN(scores) ==
    IF scores = <<>> THEN <<>>
    ELSE IF Head(scores) = NaNScore THEN WithoutNaN(Tail(scores))
    ELSE <<Head(scores)>> \o WithoutNaN(Tail(scores))

\* is the pair's user and item in the trained index?
KnownPair(s, pair) == pair[1] \in DOMAIN s.user_to_index /\ pair[2] \in DOMAIN s.item_to_index

\* C4: on a fitted model predict with cold_start 'drop' gives the result of
\* cold_start 'nan' with exactly the not-a-number entries removed, order
\* kept; under 'nan' a pair with an unknown user or item gives not-a-number,
\* not an error.
C4_DropIsNanWithoutNaN ==
    (call.kind = "predict" /\ call.was_fit /\ call.args[2] \in {"nan", "drop"}) =>
        LET pairs == call.args[1]
            nan == predict(self, pairs, "nan")
        IN  /\ ret.kind = "ndarray"
            /\ nan.kind = "ndarray"
            /\ Len(nan.vals) = Len(pairs)
            /\ \A k \in DOMAIN pairs : (nan.vals[k] = NaNScore) <=> ~KnownPair(self, pairs[k])
            /\ call.args[2] = "nan" => ret = nan
            /\ call.args[2] = "drop" =>
                  /\ \A k \in DOMAIN ret.vals : ret.vals[k] # NaNScore
                  /\ ret.vals = WithoutNaN(nan.vals)

\* predict with cold_start 'drop' has dropped one entry and kept another
C4_Witness ==
    /\ call.kind = "predict"
    /\ call.was_fit
    /\ call.args[2] = "drop"
    /\ ret.kind = "ndarray"
    /\ Len(ret.vals) >= 1
    /\ Len(ret.vals) < Len(call.args[1])

\* C7: after successful calls of fit and fit_partial the stored shapes are
\* consistent: w_i has length I, v_u is U x F, v_i is I x F, x_uf has as many
\* columns as v_uf has rows, and x_if has as many columns as w_if has
\* entries and v_if has rows.
C7_ShapesStayConsistent ==
    TrainingReturned =>
        /\ self.w_i.shape = <<Len(self.item_idx)>>
        /\ self.v_u.shape = <<Len(self.user_idx), factors>>
        /\ self.v_i.shape = <<Len(self.item_idx), factors>>
        /\ self.x_uf.shape[2] = self.v_uf.shape[1]
        /\ self.x_if.shape[2] = self.w_if.shape[1]
        /\ self.x_if.shape[2] = self.v_if.shape[1]

\* the rows of a table whose user and item are both in the index, mapped to
\* index positions
KnownRows(s, interactions) ==
    LET known == SelectSeq(interactions, LAMBDA row : KnownPair(s, row))
    IN  [k \in DOMAIN known |-> <<s.user_to_index[known[k][1]], s.item_to_index[known[k][2]]>>]

\* C8: fit_partial on a fitted model with interactions that name a user or
\* an item the indexes lack drops those rows and proceeds: the stored
\* interactions are the rows whose user and item are in the index.
C8_UnknownRowsAreDropped ==
    (/\ call.kind = "fit_partial"
     /\ call.was_fit
     /\ \E k \in DOMAIN call.args.interactions : ~KnownPair(self, call.args.interactions[k]))
        => /\ ret = ReturnedSelf
           /\ self.interactions = [kind |-> "ndarray", rows |-> KnownRows(self, call.args.interactions)]

\* C9: after successful calls of fit and fit_partial the observed-set map has
\* an entry for every user index of the trained index, equal to the set of
\* item indices paired with that user in the stored interactions.
C9_ObservedSetsCoverTheIndex ==
    TrainingReturned =>
        \A u \in Range(self.user_idx) :
            /\ u \in DOMAIN self.user_items_py
            /\ Range(self.user_items_py[u]) =
                  {self.interactions.rows[k][2] :
                      k \in {j \in DOMAIN self.interactions.rows : self.interactions.rows[j][1] = u}}

\* C5: on a fitted model recommend_for_users does not raise for an unknown
\* user: with cold_start 'nan' there is one row per queried user and the row
\* of an unknown user holds only missing markers; with cold_start 'drop' the
\* result holds exactly the rows of the queried users of the trained index,
\* in query order.
C5_ColdStartRows ==
    (call.kind = "recommend_for_users" /\ call.was_fit /\ call.args[4] \in {"nan", "drop"}) =>
        LET users == call.args[1]
        IN  /\ ret.kind = "DataFrame"
            /\ call.args[4] = "nan" =>
                  /\ ret.index = users
                  /\ \A k \in DOMAIN users :
                        users[k] \notin DOMAIN self.user_to_index
                            => \A c \in DOMAIN ret.rows[k] : ret.rows[k][c] = NaN
            /\ call.args[4] = "drop" =>
                  ret.index = SelectSeq(users, LAMBDA u : u \in DOMAIN self.user_to_index)

\* C10: on a fitted model similar_users for a user of the trained index
\* completes without error and returns at most n_users users of the trained
\* index, never the user itself, ranked from the user latent factors and the
\* user-feature factors.
C10_SimilarUsers ==
    (call.kind = "similar_users" /\ call.was_fit /\ call.args[1] \in DOMAIN self.user_to_index) =>
        /\ ret.kind = "Series"
        /\ Len(ret.vals) <= call.args[2]
        /\ \A k \in DOMAIN ret.vals :
              ret.vals[k] \in DOMAIN self.user_to_index /\ ret.vals[k] # call.args[1]
        /\ ret.by = <<"v_u", "v_uf", "x_uf">>

====
